---------------------------- MODULE Spec2Model ----------------------------
(***************************************************************************)
(* Model of the dynamics page of the portfolio site (src/script/dynamic.js):*)
(* the DynamicsPagination manager (state, config, page-window generator,   *)
(* rendering, click / popstate / resize handlers).                         *)
(*                                                                         *)
(* The other pages of the site follow: the artwork list and its search     *)
(* (src/script/artwork-list.js), the contact form (src/scripts/contact.js) *)
(* and the tab system of the artwork detail page                           *)
(* (src/scripts/artwork-detail.js).                                        *)
(*                                                                         *)
(* The specifications of the module:                                       *)
(*   SpecGen     - generatePageItems applied to every input of a bounded set*)
(*   SpecSlice   - the slices renderCurrentPage computes, page after page  *)
(*   SpecLoad    - the sort of loadDynamicsData applied to bounded arrays  *)
(*   Spec        - the dynamics page as a state machine driven by events   *)
(*   SpecTimers  - Spec, with the timers that are pending firing           *)
(*   SpecApi     - Spec, with goToPage also called directly                *)
(*   SpecWorks   - the artwork list page                                   *)
(*   SpecContact - the contact form                                        *)
(*   SpecTabs    - the tab system of the detail page                       *)
(***************************************************************************)
EXTENDS Integers, Sequences, FiniteSets, TLC

VARIABLES
    gen,              \* harness of generatePageItems: inputs, result, done flag
    sl,               \* harness of the slice computation of renderCurrentPage
    load,             \* harness of the sort of loadDynamicsData
    works,            \* the artwork list page
    contact,          \* the contact form page
    tabs,             \* the tab system of the artwork detail page
    phase,            \* initializePage: "loading", then "ready" | "empty" | "error"
    allDynamics,      \* state.allDynamics
    totalPages,       \* state.totalPages
    currentPage,      \* state.currentPage
    resizeTimeout,    \* the 250 ms timers of handleResize that are pending
    resizeHandler,    \* state.resizeHandler: TRUE once the resize listener is installed
    navigation,       \* config.navigation
    innerWidth,       \* window.innerWidth
    urlPage,          \* the value of the `page` parameter of window.location.search
    pagination,       \* what #pagination-container shows
    clickHandlers,    \* number of click listeners registered on #pagination-container
    list,             \* what #dynamics-list shows
    transitionTimers, \* pending 300 ms page-transition timers, oldest first
    lastOp            \* history: the handler that ran last and its input

vars == <<gen, sl, load, works, contact, tabs, phase, allDynamics, totalPages, currentPage, resizeTimeout,
          resizeHandler, navigation, innerWidth, urlPage, pagination,
          clickHandlers, list, transitionTimers, lastOp>>
genVars == <<gen>>
slVars == <<sl>>
\* everything but the dynamics page
otherVars == <<gen, sl, load, works, contact, tabs>>
pageVars == <<phase, allDynamics, totalPages, currentPage, resizeTimeout,
              resizeHandler, navigation, innerWidth, urlPage, pagination,
              clickHandlers, list, transitionTimers, lastOp>>

-----------------------------------------------------------------------------
(* Bounds *)

MaxGenPages == 25       \* largest totalPages handed to generatePageItems in SpecGen
MaxNearby == 3          \* largest nearbyPages in SpecGen
MaxMidThreshold == 12   \* largest midPointThreshold in SpecGen
MaxSliceItems == 13     \* longest item list in SpecSlice
MaxPageSize == 6        \* largest page size in SpecSlice
MaxItems == 18          \* size of the largest loaded collection in Spec
MaxUrlPage == 5         \* a page number beyond the last page, tried in the URL
MaxHandlers == 4        \* click listeners after which no further render is explored
MaxResizeTimers == 2    \* most 250 ms resize timers pending at once
MaxTimers == 2          \* pending page-transition timers explored
MaxRoundTripPage == 120 \* largest page number written to and read from the URL
MaxLoadLen == 3         \* longest array sorted in SpecLoad
MaxWorksLen == 2        \* longest works array loaded in SpecWorks
MaxTicks == 4           \* clock ticks explored in SpecContact
MaxSubmits == 3         \* submit events explored in SpecContact

-----------------------------------------------------------------------------
(* Program constants *)

ITEMS_PER_PAGE == 5

\* the '...' item of the page list; page numbers are >= 1
Ellipsis == -1

-----------------------------------------------------------------------------
(* JavaScript helpers *)

Max(a, b) == IF a > b THEN a ELSE b
Min(a, b) == IF a < b THEN a ELSE b

\* Array.prototype.includes
includes(items, x) == \E i \in 1..Len(items) : items[i] = x

gapAfter_noPlusOne(page, lastItem) ==
    IF lastItem = Ellipsis THEN FALSE ELSE page > lastItem

\* `page > lastItem + 1` as JavaScript evaluates it: with lastItem = '...'
\* the right side is the string '...1', the comparison is against NaN: false
gapAfter(page, lastItem) ==
    IF lastItem = Ellipsis THEN FALSE ELSE page > lastItem + 1

\* items.length > 0 ? items[items.length - 1] : 0
lastItemOrZero(items) == IF Len(items) > 0 THEN items[Len(items)] ELSE 0

\* `page > items[items.length - 1] + 1`: on an empty array the element is
\* undefined, undefined + 1 is NaN and the comparison is false
gapAfterLast(page, items) ==
    IF Len(items) = 0 THEN FALSE ELSE gapAfter(page, items[Len(items)])

-----------------------------------------------------------------------------
(* generatePageItems, step by step *)

smallPageThreshold_minus2(nearbyPages) == nearbyPages * 2 + 3
smallPageThreshold(nearbyPages) == nearbyPages * 2 + 5

\* step 1: for (i = 1; i <= totalPages; i++) items.push(i)
allPages(tp) == [i \in 1..tp |-> i]

\* step 2
leadingEdge_inverted(nav) == IF nav.alwaysShowFirstLast THEN <<>> ELSE <<1>>
leadingEdge(nav) == IF nav.alwaysShowFirstLast THEN <<1>> ELSE <<>>

frontMidPoint(cp) == (1 + cp) \div 2

frontMidPointClear_always(frontMid, nearbyPages) == TRUE
\* frontMidPoint > minFrontGap
frontMidPointClear(frontMid, nearbyPages) == frontMid > nearbyPages + 1

\* step 3
withFrontMidPoint(items, cp, nav) ==
    IF cp > nav.midPointThreshold
       /\ frontMidPointClear(frontMidPoint(cp), nav.nearbyPages)
    THEN (IF gapAfter(frontMidPoint(cp), lastItemOrZero(items))
          THEN Append(items, Ellipsis) ELSE items)
         \o <<frontMidPoint(cp)>>
    ELSE items

startPage_oneMore(cp, nearbyPages) == Max(2, cp - nearbyPages - 1)
startPage(cp, nearbyPages) == Max(2, cp - nearbyPages)
endPage(cp, tp, nearbyPages) ==
    Min(tp - 1, cp + nearbyPages)

\* the loop of step 4: push every i of lo..hi that items does not include yet
RECURSIVE pushRange(_, _, _)
pushRange(items, lo, hi) ==
    IF lo > hi THEN items
    ELSE pushRange(IF includes(items, lo) THEN items ELSE Append(items, lo),
                   lo + 1, hi)

\* step 4
withNearbyPages(items, cp, tp, nav) ==
    LET sp == startPage(cp, nav.nearbyPages)
        ep == endPage(cp, tp, nav.nearbyPages)
        withGap == IF sp > 2 /\ gapAfter(sp, lastItemOrZero(items))
                   THEN Append(items, Ellipsis) ELSE items
    IN pushRange(withGap, sp, ep)

backMidPoint_halfTotal(cp, tp) == tp \div 2
backMidPoint(cp, tp) == (cp + tp) \div 2

\* step 5
withBackMidPoint(items, cp, tp, nav) ==
    LET bm == backMidPoint(cp, tp)
        maxBackGap == tp - nav.nearbyPages - 1
    IN IF cp < tp - (nav.midPointThreshold - 1)
          /\ bm > endPage(cp, tp, nav.nearbyPages)
          /\ bm < maxBackGap
       THEN (IF gapAfterLast(bm, items) THEN Append(items, Ellipsis) ELSE items)
            \o <<bm>>
       ELSE items

\* step 6
withLastPage(items, tp, nav) ==
    IF nav.alwaysShowFirstLast /\ ~includes(items, tp)
    THEN (IF gapAfterLast(tp, items)
          THEN Append(items, Ellipsis) ELSE items) \o <<tp>>
    ELSE items

\* the loop with the `else` of the outer `if` missing: an ellipsis that is
\* kept is pushed a second time by the branch meant for page numbers
cleanConsecutiveEllipsis_missingElse(items) ==
    LET RECURSIVE clean(_, _, _)
        clean(rest, cleaned, lastWasEllipsis) ==
            IF rest = <<>> THEN cleaned
            ELSE LET kept == IF Head(rest) = Ellipsis /\ ~lastWasEllipsis
                             THEN Append(cleaned, Head(rest)) ELSE cleaned
                 IN clean(Tail(rest), Append(kept, Head(rest)), FALSE)
    IN clean(items, <<>>, FALSE)

\* step 7: the loop over items with the flag lastWasEllipsis
cleanConsecutiveEllipsis(items) ==
    LET RECURSIVE clean(_, _, _)
        clean(rest, cleaned, lastWasEllipsis) ==
            IF rest = <<>> THEN cleaned
            ELSE IF Head(rest) = Ellipsis
                 THEN (IF ~lastWasEllipsis
                       THEN clean(Tail(rest), Append(cleaned, Head(rest)), TRUE)
                       ELSE clean(Tail(rest), cleaned, lastWasEllipsis))
                 ELSE clean(Tail(rest), Append(cleaned, Head(rest)), FALSE)
    IN clean(items, <<>>, FALSE)

generatePageItems(cp, tp, nav) ==
    IF tp <= smallPageThreshold(nav.nearbyPages)
    THEN allPages(tp)
    ELSE cleanConsecutiveEllipsis(
           withLastPage(
             withBackMidPoint(
               withNearbyPages(
                 withFrontMidPoint(leadingEdge(nav), cp, nav),
                 cp, tp, nav),
               cp, tp, nav),
             tp, nav))

isMidPoint_noThreshold(page, cp, tp, nav) ==
    IF page = 1 \/ page = tp THEN FALSE
    ELSE page = frontMidPoint(cp) \/ page = backMidPoint(cp, tp)
\* isMidPoint: the page items renderPagination gives the class mid-point
isMidPoint(page, cp, tp, nav) ==
    IF page = 1 \/ page = tp THEN FALSE
    ELSE IF cp > nav.midPointThreshold /\ page = frontMidPoint(cp) THEN TRUE
    ELSE IF cp < tp - (nav.midPointThreshold - 1) /\ page = backMidPoint(cp, tp)
         THEN TRUE
    ELSE FALSE

-----------------------------------------------------------------------------
(* The page: DynamicsPagination as a state machine *)

\* the decimal digits, as the characters of a string
Digits == <<"0", "1", "2", "3", "4", "5", "6", "7", "8", "9">>
isDigit(c) == \E d \in 1..Len(Digits) : Digits[d] = c
digitValue(c) == (CHOOSE d \in 1..Len(Digits) : Digits[d] = c) - 1

\* String(n) of an integer: the characters of its decimal notation
RECURSIVE digitsOf(_)
digitsOf(n) ==
    IF n < 10 THEN <<Digits[n + 1]>>
    ELSE Append(digitsOf(n \div 10), Digits[(n % 10) + 1])
toString(n) == IF n < 0 THEN <<"-">> \o digitsOf(-n) ELSE digitsOf(n)

\* the `page` query parameter: absent (get() is null) or a string of characters
Absent == [present |-> FALSE, text |-> <<>>]
NonNumeric == [present |-> TRUE, text |-> <<"a", "b", "c">>]
Decimal(n) == [present |-> TRUE, text |-> toString(n)]          \* "3", "-1"
NumericPrefix(n) ==                                             \* "3abc"
    [present |-> TRUE, text |-> toString(n) \o <<"a", "b", "c">>]

\* the parameters tried: none, text, a number followed by text, the numbers
\* around the first page, and one number beyond the last page
UrlValues ==
    {Absent, NonNumeric, NumericPrefix(2), Decimal(MaxUrlPage)}
        \cup {Decimal(n) : n \in -1..2}

\* NaN, and the null that getPageFromURL returns
NaN == -1000
null == 0

\* the value of the longest prefix of text made of digits; NaN if it is empty
RECURSIVE leadingDigits(_, _, _)
leadingDigits(text, value, seen) ==
    IF text = <<>> \/ ~isDigit(Head(text))
    THEN (IF seen THEN value ELSE NaN)
    ELSE leadingDigits(Tail(text), value * 10 + digitValue(Head(text)), TRUE)

parseInt_firstDigit(v) ==
    IF v.present /\ v.text # <<>> /\ isDigit(Head(v.text))
    THEN digitValue(Head(v.text)) ELSE NaN
\* parseInt(urlParams.get('page')): an optional sign, then the leading
\* digits; null (read as "null") and a string without leading digits give NaN
parseInt(v) ==
    IF ~v.present \/ v.text = <<>> THEN NaN
    ELSE IF Head(v.text) = "-"
         THEN (LET magnitude == leadingDigits(Tail(v.text), 0, FALSE)
               IN IF magnitude = NaN THEN NaN ELSE -magnitude)
         ELSE leadingDigits(v.text, 0, FALSE)

\* getPageFromURL: the page, or null
getPageFromURL(v) ==
    LET page == parseInt(v)
    IN IF page # NaN /\ page # 0 /\ page > 0 THEN page ELSE null

\* updateURL: the parameter that replaceState leaves in the URL
updateURL(page) == IF page = 1 THEN Absent ELSE Decimal(page)

\* setupResponsiveConfig: the navigation config for a window width
responsiveConfig(width) ==
    IF width < 768
    THEN [nearbyPages |-> 1, midPointThreshold |-> 12, alwaysShowFirstLast |-> TRUE]
    ELSE IF width < 1024
         THEN [nearbyPages |-> 2, midPointThreshold |-> 8, alwaysShowFirstLast |-> TRUE]
         ELSE [nearbyPages |-> 2, midPointThreshold |-> 10, alwaysShowFirstLast |-> TRUE]

\* config.navigation as the object literal sets it
defaultNavigation ==
    [nearbyPages |-> 2, midPointThreshold |-> 10, alwaysShowFirstLast |-> TRUE]

pageCount_floor(length, itemsPerPage) == length \div itemsPerPage
\* Math.ceil(dynamics.length / itemsPerPage)
pageCount(length, itemsPerPage) == (length + itemsPerPage - 1) \div itemsPerPage

\* Array.prototype.slice(start, end) for 0 <= start
slice(arr, start, end) ==
    SubSeq(arr, Min(start, Len(arr)) + 1, Min(end, Len(arr)))

pageDynamics_shifted(dynamics, page, itemsPerPage) ==
    slice(dynamics, page * itemsPerPage, page * itemsPerPage + itemsPerPage)
\* renderCurrentPage: the slice of the page
pageDynamics(dynamics, page, itemsPerPage) ==
    LET startIndex == (page - 1) * itemsPerPage
        endIndex == startIndex + itemsPerPage
    IN slice(dynamics, startIndex, endIndex)

\* hidePagination: display none, innerHTML ''
hiddenPagination ==
    [display |-> FALSE, items |-> <<>>, active |-> 0,
     prevDisabled |-> FALSE, nextDisabled |-> FALSE]

renderPagination_noHide(page, pages, nav) ==
    [display |-> TRUE,
     items |-> generatePageItems(page, pages, nav),
     active |-> page,
     prevDisabled |-> (page = 1),
     nextDisabled |-> (page = pages)]
\* renderPagination: the control it leaves in the container
renderPagination(page, pages, nav) ==
    IF pages <= 1 THEN hiddenPagination
    ELSE [display |-> TRUE,
          items |-> generatePageItems(page, pages, nav),
          active |-> page,
          prevDisabled |-> (page = 1),
          nextDisabled |-> (page = pages)]

\* renderPagination calls attachPaginationEvents unless it hid the control:
\* one more click listener on the container each time
attachPaginationEvents(handlers, pages) ==
    IF pages <= 1 THEN handlers ELSE handlers + 1

\* container.children.length > 0
hasChildren(l) == l.kind \in {"loading", "empty", "error"} \/ Len(l.cards) > 0

\* initializePage's loading-state, showEmptyState, showError, renderDynamicsList
loadingState == [kind |-> "loading", cards |-> <<>>]
emptyState == [kind |-> "empty", cards |-> <<>>]
errorState == [kind |-> "error", cards |-> <<>>]
\* createDynamicCard returns null for an entry without a title
hasTitle(dynamic) == dynamic > 0
\* the cards the forEach of renderDynamicsList appends to the fragment
cardList(dynamics) == [kind |-> "cards", cards |-> SelectSeq(dynamics, hasTitle)]

\* the part of the page a navigation changes
Nav ==
    [currentPage |-> currentPage, pagination |-> pagination,
     clickHandlers |-> clickHandlers, list |-> list,
     transitionTimers |-> transitionTimers, urlPage |-> urlPage]

\* animatePageTransition: a 300 ms timer when the container has children,
\* else the list at once
\* renderDynamicsList: the empty state (which hides the pagination) for an
\* empty array, else the cards of the entries
renderDynamicsList(st, dynamics) ==
    IF Len(dynamics) = 0
    THEN [st EXCEPT !.list = emptyState, !.pagination = hiddenPagination]
    ELSE [st EXCEPT !.list = cardList(dynamics)]

animatePageTransition(st, dynamics) ==
    IF hasChildren(st.list)
    THEN [st EXCEPT !.transitionTimers = Append(@, dynamics)]
    ELSE renderDynamicsList(st, dynamics)

goToPageRejects_noUpperBound(page, current) == page < 1 \/ page = current
\* the guard of goToPage
goToPageRejects(page, current) ==
    page < 1 \/ page > totalPages \/ page = current

\* goToPage: state.currentPage, renderPagination, renderCurrentPage, updateURL
goToPage(st, page) ==
    IF goToPageRejects(page, st.currentPage) THEN st
    ELSE animatePageTransition(
            [st EXCEPT !.currentPage = page,
                       !.pagination = renderPagination(page, totalPages, navigation),
                       !.clickHandlers = attachPaginationEvents(@, totalPages),
                       !.urlPage = updateURL(page)],
            pageDynamics(allDynamics, page, ITEMS_PER_PAGE))

\* the elements of the rendered control a click can land on, with the classes
\* and data-page they were rendered with
ClickTargets ==
    IF ~pagination.display THEN {}
    ELSE {[kind |-> "prev", page |-> 0, disabled |-> pagination.prevDisabled,
           active |-> FALSE],
          [kind |-> "next", page |-> 0, disabled |-> pagination.nextDisabled,
           active |-> FALSE]}
         \cup {[kind |-> "page", page |-> pagination.items[i], disabled |-> FALSE,
                active |-> (pagination.items[i] = pagination.active)] :
               i \in {j \in 1..Len(pagination.items) :
                        pagination.items[j] # Ellipsis}}
         \cup {[kind |-> "ellipsis", page |-> 0, disabled |-> FALSE,
                active |-> FALSE] :
               i \in {j \in 1..Len(pagination.items) :
                        pagination.items[j] = Ellipsis}}

clickListener_stepsBlindly(st, target) ==
    IF target.kind = "ellipsis" \/ target.active THEN st
    ELSE LET newPage ==
                 CASE target.kind = "prev" -> st.currentPage - 1
                   [] target.kind = "next" -> st.currentPage + 1
                   [] OTHER -> target.page
         IN IF newPage # st.currentPage
            THEN [st EXCEPT !.currentPage = newPage] ELSE st
\* one click listener of attachPaginationEvents handling the event
clickListener(st, target) ==
    IF target.kind = "ellipsis" \/ target.disabled \/ target.active THEN st
    ELSE LET newPage ==
                 CASE target.kind = "prev" -> Max(1, st.currentPage - 1)
                   [] target.kind = "next" -> Min(totalPages, st.currentPage + 1)
                   [] OTHER -> target.page
         IN IF newPage # st.currentPage THEN goToPage(st, newPage) ELSE st

\* the event is handled by every listener that was registered when it was
\* dispatched, one after the other, all with the element that was clicked
RECURSIVE dispatchClick(_, _, _)
dispatchClick(st, target, listeners) ==
    IF listeners = 0 THEN st
    ELSE dispatchClick(clickListener(st, target), target, listeners - 1)

\* the collections loadDynamicsData can deliver: items are named by their
\* position in the sorted array
DynamicsCounts == {0, 1, 2 * ITEMS_PER_PAGE + 2, MaxItems}
Dynamics(n) == [i \in 1..n |-> i]

\* a collection whose last entry, alone on the second page, has no title: an
\* entry without a title is named by its negated position
LastUntitled ==
    [i \in 1..(ITEMS_PER_PAGE + 1) |-> IF i = ITEMS_PER_PAGE + 1 THEN -i ELSE i]

LoadedDynamics == {Dynamics(n) : n \in DynamicsCounts} \cup {LastUntitled}

\* the entries of that collection as a data file lists them oldest first
OldestFirst ==
    [i \in 1..Len(LastUntitled) |-> LastUntitled[Len(LastUntitled) + 1 - i]]

\* entries whose date fields are special: without date and timestamp, dated
\* before 1970, with a timestamp only, and with the date-time of entry 2
Undated == 101
BeforeEpoch == 102
TimestampOnly == 103
SameDate == 104

\* a field the entry does not have
NoField == -999
\* the date-time of entry 1, the newest of the ordinary entries; entry i is
\* i units older (times are counted from 1970, like Date.getTime())
NewestDate == 1000
abs(n) == IF n < 0 THEN -n ELSE n

\* new Date(`${date} ${time}`) or new Date(date) of the entry, as a time
entryDate(e) ==
    CASE e = Undated -> NoField
      [] e = TimestampOnly -> NoField
      [] e = BeforeEpoch -> -1
      [] e = SameDate -> NewestDate - 2
      [] OTHER -> NewestDate - abs(e)
\* new Date(timestamp) of the entry, as a time
entryTimestamp(e) == IF e = TimestampOnly THEN NewestDate - 3 ELSE NoField

\* parseDateTime: date (and time), else timestamp, else new Date(0)
parseDateTime(e) ==
    IF entryDate(e) # NoField THEN entryDate(e)
    ELSE IF entryTimestamp(e) # NoField THEN entryTimestamp(e)
    ELSE 0

\* the comparator handed to sort: dateB - dateA
compareDynamics(a, b) == parseDateTime(b) - parseDateTime(a)

\* Array.prototype.sort with that comparator: the order of the comparator,
\* entries that compare equal keep their order (the sort is stable)
RECURSIVE insertSorted(_, _)
insertSorted(sorted, e) ==
    IF sorted = <<>> THEN <<e>>
    ELSE IF compareDynamics(Head(sorted), e) <= 0
         THEN <<Head(sorted)>> \o insertSorted(Tail(sorted), e)
         ELSE <<e>> \o sorted
RECURSIVE sortFrom(_, _)
sortFrom(rest, sorted) ==
    IF rest = <<>> THEN sorted
    ELSE sortFrom(Tail(rest), insertSorted(sorted, Head(rest)))
sortedDynamics(dynamics) == sortFrom(dynamics, <<>>)

\* JavaScript values that can stand where an array is expected
ArrayValue(items) == [kind |-> "array", items |-> items]
NullValue == [kind |-> "null", items |-> <<>>]
ObjectValue == [kind |-> "object", items |-> <<>>]

\* the outcome of fetch(DATA_PATH): rejected, or a response with its status,
\* its content-type header and its body (which json() may fail to parse)
GoodResponse(items) ==
    [rejected |-> FALSE, ok |-> TRUE, contentType |-> "application/json",
     parses |-> TRUE, body |-> ArrayValue(items)]
GoodResponses ==
    {GoodResponse(items) : items \in LoadedDynamics \cup {OldestFirst}}
        \cup {[GoodResponse(Dynamics(1)) EXCEPT
                  !.contentType = "application/json; charset=utf-8"]}
FailedResponses ==
    {[GoodResponse(Dynamics(1)) EXCEPT !.rejected = TRUE],
     [GoodResponse(Dynamics(1)) EXCEPT !.ok = FALSE],
     [GoodResponse(Dynamics(1)) EXCEPT !.contentType = "none"],
     [GoodResponse(Dynamics(1)) EXCEPT !.contentType = "text/html"],
     [GoodResponse(Dynamics(1)) EXCEPT !.parses = FALSE],
     [GoodResponse(Dynamics(1)) EXCEPT !.body = NullValue],
     [GoodResponse(Dynamics(1)) EXCEPT !.body = ObjectValue]}
Responses == GoodResponses \cup FailedResponses

\* contentType.includes('application/json')
includesJson(contentType) ==
    contentType \in {"application/json", "application/json; charset=utf-8"}

loadThrows_acceptsAnyBody(response) ==
    \/ response.rejected
    \/ ~response.ok
    \/ response.contentType = "none" \/ ~includesJson(response.contentType)
\* loadDynamicsData throws: fetch rejected, status not ok, content type
\* missing or not JSON, body not parsable, body not an array
loadThrows(response) ==
    \/ response.rejected
    \/ ~response.ok
    \/ response.contentType = "none" \/ ~includesJson(response.contentType)
    \/ ~response.parses
    \/ response.body.kind # "array"

\* loadDynamicsData returns: the array of the body, sorted
loadDynamicsData(response) == ArrayValue(sortedDynamics(response.body.items))

rejectsCollection_onlyNull(dynamics) == dynamics.kind = "null"
\* init, step 2: !dynamics || !Array.isArray(dynamics) || dynamics.length === 0
rejectsCollection(dynamics) ==
    \/ dynamics.kind = "null"
    \/ dynamics.kind # "array"
    \/ Len(dynamics.items) = 0

NoResponse == [none |-> TRUE]

\* window widths tried: below the first breakpoint, and a desktop width
Widths == {767, 1024}

Op(op, arg, url) ==
    [op |-> op, arg |-> arg, url |-> url, response |-> NoResponse]

\* the model explores a navigation only while the counters stay in bounds
InBounds(st) ==
    /\ st.clickHandlers <= MaxHandlers
    /\ Len(st.transitionTimers) <= MaxTimers

ApplyNav(st) ==
    /\ InBounds(st)
    /\ currentPage' = st.currentPage
    /\ pagination' = st.pagination
    /\ clickHandlers' = st.clickHandlers
    /\ list' = st.list
    /\ transitionTimers' = st.transitionTimers
    /\ urlPage' = st.urlPage

\* a part of the module that the specification at hand does not use
Idle == [idle |-> TRUE]

\* the values the page variables hold in the specifications of the functions
PageIdle ==
    /\ phase = "idle" /\ allDynamics = <<>> /\ totalPages = 0 /\ currentPage = 1
    /\ resizeTimeout = 0 /\ resizeHandler = FALSE
    /\ navigation = defaultNavigation /\ innerWidth = 1024 /\ urlPage = Absent
    /\ pagination = hiddenPagination /\ clickHandlers = 0 /\ list = loadingState
    /\ transitionTimers = <<>>
    /\ lastOp = Op("none", 0, Absent)

\* the script has run, initializePage shows the loading state and awaits the data
Init ==
    /\ gen = Idle /\ sl = Idle /\ load = Idle
    /\ works = Idle /\ contact = Idle /\ tabs = Idle
    /\ phase = "loading"
    /\ allDynamics = <<>>
    /\ totalPages = 0
    /\ currentPage = 1
    /\ resizeTimeout = 0
    /\ resizeHandler = FALSE
    /\ navigation = defaultNavigation
    /\ innerWidth \in Widths
    /\ urlPage \in UrlValues
    /\ pagination = hiddenPagination
    /\ clickHandlers = 0
    /\ list = loadingState
    /\ transitionTimers = <<>>
    /\ lastOp = Op("none", 0, Absent)

\* init, step 4: urlPage ? Math.max(1, Math.min(urlPage, totalPages)) : 1
initialPage(urlPageNumber, pages) ==
    IF urlPageNumber # null THEN Max(1, Min(urlPageNumber, pages)) ELSE 1

\* initializePage: loadDynamicsData returned, DynamicsPagination.init(dynamics)
InitLoaded(response) ==
    LET loaded == loadDynamicsData(response)
        dynamics == loaded.items
    IN
    /\ phase = "loading"
    /\ ~loadThrows(response)
    /\ lastOp' = [Op("init", Len(dynamics), urlPage) EXCEPT !.response = response]
    /\ navigation' = responsiveConfig(innerWidth)
    /\ IF rejectsCollection(loaded)
       THEN /\ phase' = "empty"
            /\ list' = emptyState
            /\ pagination' = hiddenPagination
            /\ UNCHANGED <<allDynamics, totalPages, currentPage, resizeHandler,
                           urlPage, clickHandlers, transitionTimers>>
       ELSE LET pages == pageCount(Len(dynamics), ITEMS_PER_PAGE)
                page == initialPage(getPageFromURL(urlPage), pages)
                rendered == [Nav EXCEPT
                    !.currentPage = page,
                    !.pagination = renderPagination(page, pages, responsiveConfig(innerWidth)),
                    !.clickHandlers = attachPaginationEvents(@, pages),
                    !.urlPage = updateURL(page)]
            IN /\ phase' = "ready"
               /\ allDynamics' = dynamics
               /\ totalPages' = pages
               /\ ApplyNav(animatePageTransition(rendered,
                      pageDynamics(dynamics, page, ITEMS_PER_PAGE)))
               /\ resizeHandler' = TRUE
    /\ UNCHANGED <<resizeTimeout, innerWidth>>
    /\ UNCHANGED otherVars

\* initializePage: loadDynamicsData threw, showError
InitFailed(response) ==
    /\ phase = "loading"
    /\ loadThrows(response)
    /\ phase' = "error"
    /\ list' = errorState
    /\ pagination' = hiddenPagination
    /\ lastOp' = [Op("showError", 0, Absent) EXCEPT !.response = response]
    /\ UNCHANGED <<allDynamics, totalPages, currentPage, resizeTimeout,
                   resizeHandler, navigation, innerWidth, urlPage,
                   clickHandlers, transitionTimers>>
    /\ UNCHANGED otherVars

\* a click on an element of the pagination control
Click(target) ==
    /\ target \in ClickTargets
    /\ ApplyNav(dispatchClick(Nav, target, clickHandlers))
    /\ lastOp' = Op(target.kind, target.page, Absent)
    /\ UNCHANGED <<phase, allDynamics, totalPages, resizeTimeout, resizeHandler,
                   navigation, innerWidth>>
    /\ UNCHANGED otherVars

\* the popstate listener: the browser has put the history entry's URL in place
PopState(v) ==
    /\ phase # "idle"
    /\ lastOp' = Op("popstate", 0, v)
    /\ IF Len(allDynamics) > 0
       THEN LET urlPageNumber == getPageFromURL(v)
                newPage == IF urlPageNumber # null THEN urlPageNumber ELSE 1
                arrived == [Nav EXCEPT !.urlPage = v]
            IN IF newPage # currentPage
               THEN ApplyNav(goToPage(arrived, newPage))
               ELSE ApplyNav(arrived)
       ELSE /\ urlPage' = v
            /\ UNCHANGED <<currentPage, pagination, clickHandlers, list,
                           transitionTimers>>
    /\ UNCHANGED <<phase, allDynamics, totalPages, resizeTimeout, resizeHandler,
                   navigation, innerWidth>>
    /\ UNCHANGED otherVars

handleResize_noClear(pending) == pending + 1
\* handleResize: clearTimeout(state.resizeTimeout) cancels the timer set last,
\* if it has not fired, and setTimeout starts one more
handleResize(pending) ==
    (IF pending > 0 THEN pending - 1 ELSE pending) + 1

\* a resize event: handleResize runs if setupResizeListener installed it
Resize(w) ==
    /\ phase # "idle"
    /\ w # innerWidth
    /\ innerWidth' = w
    /\ resizeTimeout' = (IF resizeHandler THEN handleResize(resizeTimeout)
                         ELSE resizeTimeout)
    /\ resizeTimeout' <= MaxResizeTimers
    /\ lastOp' = Op("resize", w, Absent)
    /\ UNCHANGED <<phase, allDynamics, totalPages, currentPage, resizeHandler,
                   navigation, urlPage, pagination, clickHandlers, list,
                   transitionTimers>>
    /\ UNCHANGED otherVars

ResizeTimer_rerendersList ==
    /\ resizeTimeout > 0
    /\ resizeTimeout' = resizeTimeout - 1
    /\ lastOp' = Op("resizeTimer", 0, Absent)
    /\ IF Len(allDynamics) > 0
       THEN /\ navigation' = responsiveConfig(innerWidth)
            /\ ApplyNav(animatePageTransition(
                   [Nav EXCEPT
                       !.pagination = renderPagination(currentPage, totalPages,
                                          responsiveConfig(innerWidth)),
                       !.clickHandlers = attachPaginationEvents(@, totalPages)],
                   pageDynamics(allDynamics, currentPage, ITEMS_PER_PAGE)))
       ELSE UNCHANGED <<navigation, currentPage, pagination, clickHandlers,
                        list, transitionTimers, urlPage>>
    /\ UNCHANGED <<phase, allDynamics, totalPages, resizeHandler, innerWidth>>
    /\ UNCHANGED otherVars
\* the 250 ms timer fires: setupResponsiveConfig and renderPagination
ResizeTimer ==
    /\ resizeTimeout > 0
    /\ resizeTimeout' = resizeTimeout - 1
    /\ lastOp' = Op("resizeTimer", 0, Absent)
    /\ IF Len(allDynamics) > 0
       THEN /\ navigation' = responsiveConfig(innerWidth)
            /\ pagination' = renderPagination(currentPage, totalPages,
                                              responsiveConfig(innerWidth))
            /\ clickHandlers' = attachPaginationEvents(clickHandlers, totalPages)
            /\ clickHandlers' <= MaxHandlers
       ELSE UNCHANGED <<navigation, pagination, clickHandlers>>
    /\ UNCHANGED <<phase, allDynamics, totalPages, currentPage, resizeHandler,
                   innerWidth, urlPage, list, transitionTimers>>
    /\ UNCHANGED otherVars

\* the oldest 300 ms timer fires: renderDynamicsList(pageDynamics, container)
TransitionTimer ==
    /\ transitionTimers # <<>>
    /\ ApplyNav(renderDynamicsList([Nav EXCEPT !.transitionTimers = Tail(@)],
                                   Head(transitionTimers)))
    /\ lastOp' = Op("transitionTimer", 0, Absent)
    /\ UNCHANGED <<phase, allDynamics, totalPages, resizeTimeout,
                   resizeHandler, navigation, innerWidth>>
    /\ UNCHANGED otherVars

Next ==
    \/ \E response \in Responses : InitLoaded(response)
    \/ \E response \in Responses : InitFailed(response)
    \/ \E t \in ClickTargets : Click(t)
    \/ \E v \in UrlValues : PopState(v)
    \/ \E w \in Widths : Resize(w)
    \/ ResizeTimer
    \/ TransitionTimer

Spec == Init /\ [][Next]_vars

\* the page with the promise of setTimeout: a pending timer fires
SpecTimers ==
    Init /\ [][Next]_vars /\ WF_vars(ResizeTimer) /\ WF_vars(TransitionTimer)

-----------------------------------------------------------------------------
(* SpecApi: the page, with goToPage also called directly (it is a public   *)
(* method of window.DynamicsPagination)                                    *)

GoToPageCall(page) ==
    /\ phase = "ready"
    /\ ApplyNav(goToPage(Nav, page))
    /\ lastOp' = Op("goToPage", page, Absent)
    /\ UNCHANGED <<phase, allDynamics, totalPages, resizeTimeout, resizeHandler,
                   navigation, innerWidth>>
    /\ UNCHANGED otherVars

NextApi ==
    \/ Next
    \/ \E page \in -1..MaxUrlPage : GoToPageCall(page)

SpecApi == Init /\ [][NextApi]_vars

-----------------------------------------------------------------------------
(* SpecSlice: the slices of renderCurrentPage, concatenated page after page *)

SliceInit ==
    /\ \E n \in 0..MaxSliceItems : \E size \in 1..MaxPageSize :
          sl = [items |-> Dynamics(n), itemsPerPage |-> size,
                pages |-> pageCount(n, size), page |-> 1, shown |-> <<>>]
    /\ gen = Idle /\ load = Idle
    /\ works = Idle /\ contact = Idle /\ tabs = Idle
    /\ PageIdle

\* the next page is rendered: its slice is appended to what was shown so far
SliceNextPage ==
    /\ sl.page <= sl.pages
    /\ sl' = [sl EXCEPT !.page = @ + 1,
                        !.shown = @ \o pageDynamics(sl.items, sl.page, sl.itemsPerPage)]
    /\ UNCHANGED <<gen, load, works, contact, tabs>>
    /\ UNCHANGED pageVars

SpecSlice == SliceInit /\ [][SliceNextPage]_vars

SliceDone == "page" \in DOMAIN sl /\ sl.page > sl.pages

-----------------------------------------------------------------------------
(* SpecGen: generatePageItems over every valid input within the bounds *)

NavConfigs ==
    [nearbyPages : 0..MaxNearby,
     midPointThreshold : 1..MaxMidThreshold,
     alwaysShowFirstLast : BOOLEAN]

GenInit ==
    /\ \E tp \in 1..MaxGenPages : \E cp \in 1..tp : \E nav \in NavConfigs :
          gen = [currentPage |-> cp, totalPages |-> tp, nav |-> nav,
                 done |-> FALSE, items |-> <<>>]
    /\ sl = Idle /\ load = Idle
    /\ works = Idle /\ contact = Idle /\ tabs = Idle
    /\ PageIdle

GenCall ==
    /\ gen.done = FALSE
    /\ gen' = [gen EXCEPT !.done = TRUE,
                          !.items = generatePageItems(gen.currentPage,
                                                      gen.totalPages, gen.nav)]
    /\ UNCHANGED <<sl, load, works, contact, tabs>>
    /\ UNCHANGED pageVars


SpecGen == GenInit /\ [][GenCall]_vars

\* the page numbers of a page list, in order
pageNumbers(items) == SelectSeq(items, LAMBDA x : x # Ellipsis)

GenDone == "done" \in DOMAIN gen /\ gen.done

-----------------------------------------------------------------------------
(* Claims about generatePageItems (checked under SpecGen) *)

\* no ellipsis anywhere in a page list
noEllipsis(items) == \A i \in 1..Len(items) : items[i] # Ellipsis

\* the pages that surround currentPage, edges included
neighbourhood(cp, tp, nearbyPages) ==
    Max(1, cp - nearbyPages)..Min(tp, cp + nearbyPages)

\* C1: the page numbers of the returned list, read left to right, are
\* strictly increasing, for every valid input.
C1_MonotonicPages ==
    GenDone =>
        LET ps == pageNumbers(gen.items)
        IN \A i \in 1..(Len(ps) - 1) : ps[i] < ps[i + 1]

\* a compacted list that holds a front midpoint, the cluster and a back midpoint
C1_Witness ==
    /\ GenDone
    /\ gen.totalPages > smallPageThreshold(gen.nav.nearbyPages)
    /\ includes(gen.items, frontMidPoint(gen.currentPage))
    /\ gen.currentPage > gen.nav.midPointThreshold
    /\ gen.nav.nearbyPages = 0
    /\ includes(gen.items, Ellipsis)
    /\ Len(pageNumbers(gen.items)) >= 4

\* C4 (as claimed): the returned list contains currentPage and every page of
\* its neighbourhood, for both values of alwaysShowFirstLast.
C4_NeighbourhoodShown ==
    GenDone =>
        \A p \in neighbourhood(gen.currentPage, gen.totalPages, gen.nav.nearbyPages) :
            includes(gen.items, p)

\* C7: the returned list never holds two ellipsis items next to each other.
C7_NoDoubleEllipsis ==
    GenDone =>
        \A i \in 1..(Len(gen.items) - 1) :
            ~(gen.items[i] = Ellipsis /\ gen.items[i + 1] = Ellipsis)

\* a compacted list with two separate ellipses
C7_Witness ==
    /\ GenDone
    /\ Cardinality({i \in 1..Len(gen.items) : gen.items[i] = Ellipsis}) >= 2

\* C8: with alwaysShowFirstLast the returned list contains page 1 and page
\* totalPages.
C8_EdgesShown ==
    (GenDone /\ gen.nav.alwaysShowFirstLast) =>
        includes(gen.items, 1) /\ includes(gen.items, gen.totalPages)

\* a compacted list, the current page far from both edges
C8_Witness ==
    /\ GenDone
    /\ gen.nav.alwaysShowFirstLast
    /\ gen.totalPages > smallPageThreshold(gen.nav.nearbyPages)
    /\ gen.currentPage - gen.nav.nearbyPages > 2
    /\ gen.currentPage + gen.nav.nearbyPages < gen.totalPages - 1
    /\ includes(gen.items, 1) /\ includes(gen.items, gen.totalPages)

\* C9: for totalPages <= nearbyPages*2 + 5 the returned list is exactly
\* 1, 2, ..., totalPages, whatever the other inputs are.
C9_SmallRangeExhaustive ==
    (GenDone /\ gen.totalPages <= gen.nav.nearbyPages * 2 + 5) =>
        gen.items = [i \in 1..gen.totalPages |-> i]

\* the largest small range: totalPages = nearbyPages*2 + 5, current page 1
C9_Witness ==
    /\ GenDone
    /\ gen.totalPages = gen.nav.nearbyPages * 2 + 5
    /\ gen.currentPage = 1
    /\ gen.nav.midPointThreshold = 1
    /\ Len(gen.items) = gen.totalPages

-----------------------------------------------------------------------------
(* Claims about the slices (checked under SpecSlice) *)

\* C5: with totalPages = ceil(length / pageSize), the slices of the pages
\* 1..totalPages, concatenated, are the item list itself: every item once, in
\* the original order.
C5_SlicesCoverList == SliceDone => sl.shown = sl.items

\* all pages rendered, several pages, the last one not full
C5_Witness ==
    /\ SliceDone
    /\ sl.pages >= 3
    /\ Len(sl.items) % sl.itemsPerPage # 0
    /\ sl.shown = sl.items

-----------------------------------------------------------------------------
(* Claims about the page (checked under Spec and SpecApi) *)

\* C2 (as claimed): one activation of 'next' below the last page raises
\* currentPage by exactly one, one activation of 'previous' above page 1
\* lowers it by exactly one, whatever was rendered before.
C2_StepByOne ==
    [][/\ (lastOp'.op = "next" /\ currentPage < totalPages)
              => currentPage' = currentPage + 1
       /\ (lastOp'.op = "prev" /\ currentPage > 1)
              => currentPage' = currentPage - 1]_vars

\* C3: once init has run with a non-empty collection, 1 <= currentPage <=
\* totalPages in every state, whatever clicks, popstate and resize events
\* follow; after init with an empty collection totalPages is 0.
C3_PageInRange ==
    /\ phase = "ready" => (1 <= currentPage /\ currentPage <= totalPages)
    /\ phase = "empty" => totalPages = 0

\* a popstate event has delivered a page number beyond the last page
C3_Witness ==
    /\ phase = "ready"
    /\ totalPages >= 2
    /\ lastOp.op = "popstate"
    /\ lastOp.url = Decimal(MaxUrlPage)
    /\ MaxUrlPage > totalPages
    /\ currentPage <= totalPages

\* the page number of a URL parameter clamped into 1..pages; a parameter that
\* is missing, not a number, zero or negative counts as 1
clampedUrlPage(v, pages) ==
    IF parseInt(v) # NaN /\ parseInt(v) >= 1 THEN Min(parseInt(v), pages) ELSE 1

\* C6 (as claimed): after init and after a popstate event, currentPage is
\* the URL's page number clamped into [1, totalPages].
C6_UrlPageClamped ==
    (phase = "ready" /\ lastOp.op \in {"init", "popstate"})
        => currentPage = clampedUrlPage(lastOp.url, totalPages)

\* C10: goToPage(page) with page < 1, page > totalPages or page = currentPage
\* leaves currentPage, the pagination control, the list (shown and pending)
\* and the URL as they were; any other call makes currentPage equal to page.
C10_GoToPageFrame ==
    [][lastOp'.op = "goToPage" =>
          IF lastOp'.arg < 1 \/ lastOp'.arg > totalPages \/ lastOp'.arg = currentPage
          THEN UNCHANGED <<currentPage, pagination, list, transitionTimers, urlPage>>
          ELSE currentPage' = lastOp'.arg]_vars

\* goToPage was called with the page after the last one and did not move
C10_Witness ==
    /\ phase = "ready"
    /\ totalPages >= 2
    /\ lastOp.op = "goToPage"
    /\ lastOp.arg = totalPages + 1
    /\ currentPage < totalPages

-----------------------------------------------------------------------------
(* Further claims about generatePageItems (checked under SpecGen) *)

\* the scenario of 20 pages, page 10, on the desktop configuration
Scenario20 ==
    /\ GenDone
    /\ gen.totalPages = 20 /\ gen.currentPage = 10
    /\ gen.nav = [nearbyPages |-> 2, midPointThreshold |-> 10,
                  alwaysShowFirstLast |-> TRUE]

\* C12 (as claimed): for totalPages=20, currentPage=10, nearbyPages=2,
\* midPointThreshold=10, alwaysShowFirstLast=true the result is exactly
\* 1, ellipsis, 8, 9, 10, 11, 12, ellipsis, 20.
C12_ScenarioAsClaimed ==
    Scenario20 =>
        gen.items = <<1, Ellipsis, 8, 9, 10, 11, 12, Ellipsis, 20>>

\* C12 (amended): for that input the result is exactly
\* 1, ellipsis, 8, 9, 10, 11, 12, ellipsis, 15, ellipsis, 20: the back
\* midpoint 15 stands between the cluster and the last page.
C12_ScenarioWithBackMidPoint ==
    Scenario20 =>
        gen.items = <<1, Ellipsis, 8, 9, 10, 11, 12, Ellipsis, 15, Ellipsis, 20>>

\* the scenario has been computed
C12_Witness == Scenario20 /\ Len(gen.items) = 11

\* C16: with alwaysShowFirstLast, between two page numbers that follow each
\* other in the result there is an ellipsis exactly when they are not
\* consecutive numbers, and the result neither starts nor ends with an ellipsis.
C16_EllipsisExactlyAtGaps ==
    (GenDone /\ gen.nav.alwaysShowFirstLast) =>
        LET items == gen.items
            n == Len(items)
        IN /\ items[1] # Ellipsis /\ items[n] # Ellipsis
           /\ \A i \in 1..(n - 1) :
                 /\ (items[i] # Ellipsis /\ items[i + 1] # Ellipsis)
                        => items[i + 1] = items[i] + 1
                 /\ (items[i] # Ellipsis /\ items[i + 1] = Ellipsis)
                        => (i + 2 <= n /\ items[i + 2] # Ellipsis
                            /\ items[i + 2] > items[i] + 1)

\* a list with adjacent numbers, a front midpoint that touches the cluster
\* without an ellipsis, and ellipses elsewhere
C16_Witness ==
    /\ GenDone /\ gen.nav.alwaysShowFirstLast
    /\ gen.totalPages > smallPageThreshold(gen.nav.nearbyPages)
    /\ gen.currentPage > gen.nav.midPointThreshold
    /\ includes(gen.items, frontMidPoint(gen.currentPage))
    /\ frontMidPoint(gen.currentPage) + 1
          = startPage(gen.currentPage, gen.nav.nearbyPages)
    /\ includes(gen.items, Ellipsis)

\* generatePageItems took the compacting path and step 3 inserted a midpoint
frontInserted ==
    /\ GenDone
    /\ gen.totalPages > gen.nav.nearbyPages * 2 + 5
    /\ withFrontMidPoint(leadingEdge(gen.nav), gen.currentPage, gen.nav)
          # leadingEdge(gen.nav)

\* generatePageItems took the compacting path and step 5 inserted a midpoint
backInserted ==
    /\ GenDone
    /\ gen.totalPages > gen.nav.nearbyPages * 2 + 5
    /\ withBackMidPoint(<<1>>, gen.currentPage, gen.totalPages, gen.nav) # <<1>>

\* C17: an inserted front midpoint lies strictly between page 1 and
\* startPage, an inserted back midpoint strictly between endPage and
\* totalPages.
C17_MidPointsStrictlyBetween ==
    /\ frontInserted =>
          LET fm == (1 + gen.currentPage) \div 2
          IN /\ 1 < fm
             /\ fm < Max(2, gen.currentPage - gen.nav.nearbyPages)
             /\ includes(gen.items, fm)
    /\ backInserted =>
          LET bm == (gen.currentPage + gen.totalPages) \div 2
          IN /\ Min(gen.totalPages - 1, gen.currentPage + gen.nav.nearbyPages) < bm
             /\ bm < gen.totalPages
             /\ includes(gen.items, bm)

\* both midpoints inserted in one list
C17_Witness == frontInserted /\ backInserted

-----------------------------------------------------------------------------
(* Claims about the list and the timers of the page (checked under Spec)   *)

\* C20: once every pending page-transition timer has fired, the list shows
\* exactly the cards of the slice of allDynamics for currentPage (no timer of
\* an earlier navigation has overwritten the content of a later one)
C20_SettledListShowsCurrentPage ==
    (phase = "ready" /\ transitionTimers = <<>>) =>
        list = cardList(pageDynamics(allDynamics, currentPage, ITEMS_PER_PAGE))

-----------------------------------------------------------------------------
(* Claims about the handlers of the page (checked under Spec)              *)

\* the previous / next button as a click target, rendered disabled or not
stepButton(kind, disabled) ==
    [kind |-> kind, page |-> 0, disabled |-> disabled, active |-> FALSE]

\* C11: 'previous' at currentPage = 1 and 'next' at currentPage = totalPages
\* leave the pagination state unchanged: the listener returns the state it
\* was given whether the button carries the disabled class or not, and a
\* click on the button changes none of currentPage, totalPages, allDynamics,
\* the control, the listeners, the list, the timers and the URL
C11_BoundaryStepsChangeNothing ==
    /\ [](phase = "ready" =>
            \A disabled \in BOOLEAN :
                /\ currentPage = 1 =>
                       clickListener(Nav, stepButton("prev", disabled)) = Nav
                /\ currentPage = totalPages =>
                       clickListener(Nav, stepButton("next", disabled)) = Nav)
    /\ [][((lastOp'.op = "prev" /\ currentPage = 1)
             \/ (lastOp'.op = "next" /\ currentPage = totalPages))
          => UNCHANGED <<currentPage, totalPages, allDynamics, pagination,
                         clickHandlers, list, transitionTimers, urlPage>>]_vars

\* 'previous' was clicked on the first of several pages, 'next' could be
\* clicked on the last
C11_Witness ==
    /\ lastOp.op = "prev" /\ currentPage = 1 /\ totalPages > 1
    /\ pagination.display /\ pagination.prevDisabled

\* C14: after init with n > 0 items totalPages is ceil(n / ITEMS_PER_PAGE),
\* and no later step changes it (or the collection); 12 items give 3 pages,
\* the settled list of page 1 shows the entries at the positions 1..5 (indices
\* 0..4) and that of page 3 the entries at the positions 11 and 12 (10, 11)
C14_TotalPagesFixed ==
    /\ [](phase = "ready" =>
            /\ Len(allDynamics) > 0
            /\ (totalPages - 1) * ITEMS_PER_PAGE < Len(allDynamics)
            /\ Len(allDynamics) <= totalPages * ITEMS_PER_PAGE
            /\ allDynamics = Dynamics(12) =>
                  /\ totalPages = 3
                  /\ pageDynamics(allDynamics, 1, ITEMS_PER_PAGE) = <<1, 2, 3, 4, 5>>
                  /\ pageDynamics(allDynamics, 3, ITEMS_PER_PAGE) = <<11, 12>>
                  /\ lastOp.op = "transitionTimer" =>
                        list.cards \in {pageDynamics(allDynamics, page, ITEMS_PER_PAGE) :
                                          page \in 1..3})
    /\ [][phase = "ready" =>
            totalPages' = totalPages /\ allDynamics' = allDynamics]_vars

\* 12 items were loaded, the view has moved to page 3 and shows its two items
C14_Witness ==
    /\ phase = "ready" /\ Len(allDynamics) = 12 /\ totalPages = 3
    /\ currentPage = 3 /\ lastOp.op = "transitionTimer"
    /\ list.cards = <<11, 12>>

\* C15: a rendered control is the output of generatePageItems for at least
\* two pages and a current page within 1..totalPages (the arguments of the
\* call are the active page, totalPages and config.navigation); with at most
\* one page the control is hidden and holds no items, whichever of init,
\* goToPage and the resize timer rendered last
C15_GeneratorOnlyWithSeveralPages ==
    /\ pagination.display =>
          /\ totalPages >= 2
          /\ pagination.active = currentPage
          /\ 1 <= pagination.active /\ pagination.active <= totalPages
          /\ pagination.items =
                generatePageItems(pagination.active, totalPages, navigation)
    /\ (phase = "ready" /\ totalPages <= 1) =>
          ~pagination.display /\ pagination.items = <<>>

\* a single page, and the resize timer has just called renderPagination
C15_Witness ==
    /\ phase = "ready" /\ totalPages = 1 /\ lastOp.op = "resizeTimer"
    /\ navigation # defaultNavigation
    /\ ~pagination.display

\* C18: a resize event and the firing of its timer change neither
\* currentPage, totalPages nor allDynamics, leave the list and its pending
\* renders alone and do not rewrite the URL; the timer replaces
\* config.navigation by the configuration for the window width and renders
\* the pagination control with it
C18_ResizeFrame ==
    [][/\ lastOp'.op \in {"resize", "resizeTimer"} =>
             UNCHANGED <<currentPage, totalPages, allDynamics, list,
                         transitionTimers, urlPage, phase>>
       /\ lastOp'.op = "resize" => UNCHANGED <<navigation, pagination>>
       /\ (lastOp'.op = "resizeTimer" /\ Len(allDynamics) > 0) =>
             /\ navigation' = responsiveConfig(innerWidth)
             /\ pagination' = renderPagination(currentPage, totalPages,
                                               navigation')]_vars

\* the resize timer has replaced the configuration while the list shows a
\* page other than the first and the URL names it
C18_Witness ==
    /\ lastOp.op = "resizeTimer" /\ phase = "ready"
    /\ navigation = responsiveConfig(innerWidth)
    /\ navigation # defaultNavigation
    /\ currentPage > 1 /\ urlPage = Decimal(currentPage)
    /\ list.kind = "cards" /\ pagination.display

\* C19: at most one resize timer is pending; a resize event handled by
\* handleResize leaves exactly one pending and neither reconfigures nor
\* re-renders; the timer fires with one pending and leaves none, and it is
\* the only step after init that reconfigures: it takes the configuration of
\* the width the last event left and renders the control once (one more
\* click listener); a pending timer does fire (as far as the exploration
\* follows the listeners, up to MaxHandlers)
C19_ResizeCoalesced ==
    /\ [](resizeTimeout <= 1)
    /\ [][(lastOp'.op = "resize" /\ resizeHandler) =>
             /\ resizeTimeout' = 1
             /\ UNCHANGED <<navigation, pagination, clickHandlers>>]_vars
    /\ [][lastOp'.op = "resizeTimer" =>
             /\ resizeTimeout = 1 /\ resizeTimeout' = 0
             /\ Len(allDynamics) > 0 =>
                   /\ navigation' = responsiveConfig(innerWidth)
                   /\ clickHandlers' =
                         attachPaginationEvents(clickHandlers, totalPages)]_vars
    /\ [][navigation' # navigation =>
             lastOp'.op \in {"init", "resizeTimer"}]_vars
    /\ (resizeTimeout = 1) ~> (resizeTimeout = 0 \/ clickHandlers = MaxHandlers)

\* a burst: a second resize event has arrived before the timer of the first
\* fired (the width is back at the one the configuration was made for), and
\* one timer is pending
C19_Witness ==
    /\ phase = "ready" /\ lastOp.op = "resize" /\ resizeTimeout = 1
    /\ navigation = responsiveConfig(innerWidth)

-----------------------------------------------------------------------------
(* Size of the page list (checked under SpecGen)                           *)

\* the ellipsis items of a page list
ellipsisCount(items) ==
    Cardinality({i \in 1..Len(items) : items[i] = Ellipsis})

\* C25: the result holds at most 2*nearbyPages + 5 page numbers (two edges,
\* two midpoints, the cluster of 2*nearbyPages + 1) and at most 4 ellipses,
\* for every totalPages and currentPage
C25_ItemCountBounded ==
    GenDone =>
        /\ Len(pageNumbers(gen.items)) <= 2 * gen.nav.nearbyPages + 5
        /\ ellipsisCount(gen.items) <= 4

\* a compacted list that reaches both bounds: edges, both midpoints, the
\* full cluster and four ellipses
C25_Witness ==
    /\ GenDone
    /\ gen.totalPages > smallPageThreshold(gen.nav.nearbyPages)
    /\ Len(pageNumbers(gen.items)) = 2 * gen.nav.nearbyPages + 5
    /\ ellipsisCount(gen.items) = 4

-----------------------------------------------------------------------------
(* The mid-point class (checked under SpecGen)                             *)

\* the configurations setupResponsiveConfig can install
ShippedConfigs == {responsiveConfig(width) : width \in {767, 768, 1024}}

\* the pages generatePageItems pushes in step 3 and step 5
insertedMidPoints(cp, tp, nav) ==
    (IF withFrontMidPoint(leadingEdge(nav), cp, nav) # leadingEdge(nav)
     THEN {frontMidPoint(cp)} ELSE {})
    \cup
    (IF withBackMidPoint(<<1>>, cp, tp, nav) # <<1>>
     THEN {backMidPoint(cp, tp)} ELSE {})

\* C27: under the three configurations of setupResponsiveConfig isMidPoint
\* marks no page of currentPage - nearbyPages .. currentPage + nearbyPages,
\* and for totalPages > 2*nearbyPages + 5 the page items that it marks are
\* exactly the midpoints generatePageItems inserted
C27_MidPointClassMatchesGenerator ==
    (GenDone /\ gen.nav \in ShippedConfigs) =>
        LET cp == gen.currentPage
            tp == gen.totalPages
            nav == gen.nav
        IN /\ \A page \in 1..tp :
                 isMidPoint(page, cp, tp, nav) =>
                     page \notin (cp - nav.nearbyPages)..(cp + nav.nearbyPages)
           /\ tp > 2 * nav.nearbyPages + 5 =>
                 \A i \in 1..Len(gen.items) :
                     gen.items[i] # Ellipsis =>
                         (isMidPoint(gen.items[i], cp, tp, nav)
                             <=> gen.items[i] \in insertedMidPoints(cp, tp, nav))

\* the mobile configuration with both midpoints inserted and marked
C27_Witness ==
    /\ GenDone /\ gen.nav = responsiveConfig(767)
    /\ gen.totalPages > 2 * gen.nav.nearbyPages + 5
    /\ Cardinality(insertedMidPoints(gen.currentPage, gen.totalPages, gen.nav)) = 2
    /\ \A page \in insertedMidPoints(gen.currentPage, gen.totalPages, gen.nav) :
          /\ includes(gen.items, page)
          /\ isMidPoint(page, gen.currentPage, gen.totalPages, gen.nav)

-----------------------------------------------------------------------------
(* Further claims about the page (checked under Spec)                      *)

\* C26 (as claimed): at most one click listener is registered on the
\* pagination container, whatever init, navigations and resize re-renders
\* have happened
C26_SingleClickHandler == clickHandlers <= 1

-----------------------------------------------------------------------------
(* The page number in the URL (checked under SpecApi)                      *)

\* the page a URL stands for: getPageFromURL, with null read as page 1
decodedPage(v) ==
    LET page == getPageFromURL(v) IN IF page = null THEN 1 ELSE page

\* C21: the parameter updateURL writes for a page reads back as that page
\* and is absent exactly for page 1 (a fact about the two functions, looked
\* at while the data is loading); after init with a non-empty collection
\* and after every step that changes currentPage the URL reads back as
\* currentPage, and init run again with that URL and the same collection
\* computes the same currentPage
C21_UrlRoundTrip ==
    /\ [](phase = "loading" =>
            \A page \in 1..MaxRoundTripPage :
                /\ decodedPage(updateURL(page)) = page
                /\ (updateURL(page) = Absent) <=> (page = 1))
    /\ [][((lastOp'.op = "init" /\ phase' = "ready")
             \/ (phase = "ready" /\ currentPage' # currentPage)) =>
            /\ decodedPage(urlPage') = currentPage'
            /\ (urlPage' = Absent) <=> (currentPage' = 1)
            /\ initialPage(getPageFromURL(urlPage'), totalPages') = currentPage'
         ]_vars

\* goToPage has moved the view to page 3 and the URL carries page=3
C21_Witness ==
    /\ phase = "ready" /\ lastOp.op = "goToPage" /\ lastOp.arg = 3
    /\ currentPage = 3 /\ urlPage = Decimal(3)
    /\ urlPage.text = <<"3">>

-----------------------------------------------------------------------------
(* Loading and its failures (checked under Spec)                           *)

\* C22: init rejects null, a value that is not an array and the empty array
\* (looked at while the data is loading); called with an empty collection it
\* shows the empty state, hides the pagination, leaves allDynamics,
\* totalPages and currentPage as they were and installs no resize listener;
\* from then on no resize timer is ever pending and the control stays hidden
C22_EmptyInitLeavesState ==
    /\ [](phase = "loading" =>
            /\ rejectsCollection(NullValue)
            /\ rejectsCollection(ObjectValue)
            /\ rejectsCollection(ArrayValue(<<>>))
            /\ ~rejectsCollection(ArrayValue(Dynamics(1))))
    /\ [][(lastOp'.op = "init" /\ Len(lastOp'.response.body.items) = 0) =>
            /\ phase' = "empty"
            /\ list' = emptyState /\ ~pagination'.display
            /\ UNCHANGED <<allDynamics, totalPages, currentPage,
                           resizeHandler, resizeTimeout>>]_vars
    /\ [](phase = "empty" =>
            /\ ~resizeHandler /\ resizeTimeout = 0
            /\ list = emptyState
            /\ ~pagination.display /\ clickHandlers = 0)

\* the collection was empty and the window has been resized since
C22_Witness ==
    /\ phase = "empty" /\ lastOp.op = "resize"
    /\ innerWidth # 1024
    /\ ~pagination.display /\ resizeTimeout = 0

\* a load that fails: fetch rejected, a status that is not OK, a content
\* type that is not JSON, a body that is no JSON or no array
loadFails(response) ==
    \/ response.rejected
    \/ ~response.ok
    \/ response.contentType \in {"none", "text/html"}
    \/ ~response.parses
    \/ response.body.kind \in {"null", "object"}

\* what the list container ends with
listRendered ==
    list.kind = "cards" \/ (list.kind = "loading" /\ transitionTimers # <<>>)

\* C23: initializePage shows the error exactly when the load fails; it then
\* has not called init (the configuration, the state and the listeners are
\* untouched), the list holds the error state and the pagination is hidden;
\* every run ends with exactly one of list rendered (at once or by the
\* pending timer), empty state and error state
C23_LoadFailureShowsError ==
    /\ [][lastOp'.op \in {"init", "showError"} =>
            (loadFails(lastOp'.response) <=> lastOp'.op = "showError")]_vars
    /\ [][lastOp'.op = "showError" =>
            /\ phase' = "error"
            /\ list' = errorState /\ ~pagination'.display
            /\ UNCHANGED <<navigation, allDynamics, totalPages, currentPage,
                           resizeHandler, clickHandlers, transitionTimers,
                           urlPage>>]_vars
    /\ [](phase # "loading" =>
            /\ phase = "error" <=> list = errorState
            /\ phase = "empty" <=> list = emptyState
            /\ phase = "ready" <=> listRendered
            /\ phase \in {"ready", "empty", "error"})
    /\ [](phase = "error" => ~pagination.display /\ ~resizeHandler)

\* the body was JSON but not an array, on a narrow window: the error state
\* is shown and the configuration is still the default one
C23_Witness ==
    /\ phase = "error" /\ lastOp.op = "showError"
    /\ lastOp.response.body = ObjectValue
    /\ innerWidth = 767 /\ navigation = defaultNavigation
    /\ list = errorState /\ ~pagination.display

-----------------------------------------------------------------------------
(* SpecLoad: the sort of loadDynamicsData over bounded arrays              *)

\* the entries an array is made of: three ordinary ones and the special ones
LoadEntries == {1, 2, 3, SameDate, TimestampOnly, BeforeEpoch, Undated}

\* the arrays the body can hold: every order of up to MaxLoadLen entries
LoadInputs ==
    {items \in UNION {[1..n -> LoadEntries] : n \in 0..MaxLoadLen} :
        \A i, j \in 1..Len(items) : i # j => items[i] # items[j]}

LoadInit ==
    /\ \E items \in LoadInputs :
          load = [response |-> GoodResponse(items), done |-> FALSE,
                  dynamics |-> <<>>]
    /\ gen = Idle /\ sl = Idle
    /\ works = Idle /\ contact = Idle /\ tabs = Idle
    /\ PageIdle

\* loadDynamicsData resolves; its value is what initializePage hands to init
LoadCall ==
    /\ load.done = FALSE
    /\ ~loadThrows(load.response)
    /\ load' = [load EXCEPT !.done = TRUE,
                            !.dynamics = loadDynamicsData(load.response).items]
    /\ UNCHANGED <<gen, sl, works, contact, tabs>>
    /\ UNCHANGED pageVars

SpecLoad == LoadInit /\ [][LoadCall]_vars

LoadDone == "done" \in DOMAIN load /\ load.done

\* an entry with a date or a timestamp
dated(e) == entryDate(e) # NoField \/ entryTimestamp(e) # NoField
\* its date-time
dateTime(e) == IF entryDate(e) # NoField THEN entryDate(e) ELSE entryTimestamp(e)

\* C24: the collection handed to init holds the entries of the loaded array,
\* each once; the dated entries stand newest first, and an entry without
\* date and timestamp stands after every dated entry
C24_NewestFirstUndatedLast ==
    LoadDone =>
        LET loaded == load.response.body.items
            dynamics == load.dynamics
        IN  /\ Len(dynamics) = Len(loaded)
            /\ {dynamics[i] : i \in 1..Len(dynamics)} =
                   {loaded[i] : i \in 1..Len(loaded)}
            /\ \A i, j \in 1..Len(dynamics) :
                  i < j =>
                     /\ (dated(dynamics[i]) /\ dated(dynamics[j])) =>
                            dateTime(dynamics[i]) >= dateTime(dynamics[j])
                     /\ ~dated(dynamics[i]) => ~dated(dynamics[j])

-----------------------------------------------------------------------------
(* SpecWorks: the artwork list page and its search (artwork-list.js)       *)

\* String.prototype.toLowerCase, over the letters the texts below use
lowerCase(c) ==
    CASE c = "A" -> "a"
      [] c = "B" -> "b"
      [] c = "J" -> "j"
      [] OTHER -> c
toLowerCase(text) == [i \in 1..Len(text) |-> lowerCase(text[i])]

\* String.prototype.trim
RECURSIVE trimStart(_)
trimStart(text) ==
    IF text # <<>> /\ Head(text) = " " THEN trimStart(Tail(text)) ELSE text
RECURSIVE trimEnd(_)
trimEnd(text) ==
    IF text # <<>> /\ text[Len(text)] = " "
    THEN trimEnd(SubSeq(text, 1, Len(text) - 1))
    ELSE text
trim(text) == trimEnd(trimStart(text))

\* String.prototype.includes
stringIncludes(text, term) ==
    \E i \in 0..(Len(text) - Len(term)) :
        SubSeq(text, i + 1, i + Len(term)) = term

\* the works of the data file; a field a work does not have is the empty text
WorkData ==
    <<[id |-> <<"w", "1">>, title |-> <<"A", "b">>, subtitle |-> <<>>,
       tag |-> <<"p">>, create_date |-> <<"J", "2">>, creator |-> <<>>,
       lyrics |-> <<>>],
      [id |-> <<"w", "2">>, title |-> <<"b", " ", "a">>, subtitle |-> <<"B">>,
       tag |-> <<"q">>, create_date |-> <<"3">>, creator |-> <<"j">>,
       lyrics |-> <<>>],
      [id |-> <<"w", "3">>, title |-> <<"q">>, subtitle |-> <<>>,
       tag |-> <<"p">>, create_date |-> <<"3">>, creator |-> <<>>,
       lyrics |-> <<"a", "b">>]>>

\* the arrays the data file can hold: every order of up to MaxWorksLen works
WorksArrays ==
    {arr \in UNION {[1..n -> 1..Len(WorkData)] : n \in 0..MaxWorksLen} :
        \A i, j \in 1..Len(arr) : i # j => arr[i] # arr[j]}

\* what the user can have in the search input
SearchTexts ==
    {<<>>, <<" ">>, <<"a">>, <<"A", "b">>, <<" ", "b", " ">>, <<"J">>,
     <<"w", "2">>, <<"z">>}

\* the filter of performSearch
workMatches(work, searchTerm) ==
    \/ stringIncludes(toLowerCase(work.title), searchTerm)
    \/ (work.subtitle # <<>> /\ stringIncludes(toLowerCase(work.subtitle), searchTerm))
    \/ stringIncludes(toLowerCase(work.tag), searchTerm)
    \/ stringIncludes(work.create_date, searchTerm)
    \/ (work.creator # <<>> /\ stringIncludes(toLowerCase(work.creator), searchTerm))
    \/ stringIncludes(toLowerCase(work.id), searchTerm)
    \/ (work.lyrics # <<>> /\ stringIncludes(toLowerCase(work.lyrics), searchTerm))

\* what #works-container shows
worksLoading == [kind |-> "loading", cards |-> <<>>]
noResults == [kind |-> "no-results", cards |-> <<>>]
worksError == [kind |-> "error", cards |-> <<>>]

\* renderWorks: the no-results notice for an empty array, else one card each
renderWorks(ws) ==
    IF Len(ws) = 0 THEN noResults ELSE [kind |-> "cards", cards |-> ws]

\* performSearch: all works without a term, else the works that match
performSearch(allWorks, searchTerm) ==
    IF searchTerm = <<>>
    THEN renderWorks(allWorks)
    ELSE renderWorks(SelectSeq(allWorks,
                               LAMBDA w : workMatches(WorkData[w], searchTerm)))

\* DOMContentLoaded: the search is initialised and the data requested
WorksInit ==
    /\ \E arr \in WorksArrays : \E fails \in BOOLEAN :
          works = [phase |-> "loading", data |-> arr, fails |-> fails,
                   allWorks |-> <<>>, input |-> <<>>, clearShown |-> FALSE,
                   shown |-> worksLoading]
    /\ gen = Idle /\ sl = Idle /\ load = Idle
    /\ contact = Idle /\ tabs = Idle
    /\ PageIdle

\* the input listener: the user changes the text of the search input
WorksInput(text) ==
    /\ text # works.input
    /\ LET searchTerm == trim(toLowerCase(text))
       IN  works' = [works EXCEPT
                        !.input = text,
                        !.clearShown = (searchTerm # <<>>),
                        !.shown = performSearch(works.allWorks, searchTerm)]
    /\ UNCHANGED <<gen, sl, load, contact, tabs>>
    /\ UNCHANGED pageVars

\* the click listener of the clear button (it can be clicked while shown)
WorksClear ==
    /\ works.clearShown
    /\ works' = [works EXCEPT
                    !.input = <<>>,
                    !.clearShown = FALSE,
                    !.shown = performSearch(works.allWorks, <<>>)]
    /\ UNCHANGED <<gen, sl, load, contact, tabs>>
    /\ UNCHANGED pageVars

\* loadArtworksData resolves: allWorks is set and every work rendered
WorksLoaded ==
    /\ works.phase = "loading" /\ ~works.fails
    /\ works' = [works EXCEPT
                    !.phase = "loaded",
                    !.allWorks = works.data,
                    !.shown = renderWorks(works.data)]
    /\ UNCHANGED <<gen, sl, load, contact, tabs>>
    /\ UNCHANGED pageVars

\* loadArtworksData rejects: handleDataError writes the error into the
\* loading-state element, which is still in the container only if no
\* search has replaced the content of the container
WorksLoadFailed ==
    /\ works.phase = "loading" /\ works.fails
    /\ works' = [works EXCEPT
                    !.phase = "error",
                    !.shown = IF works.shown = worksLoading
                              THEN worksError ELSE works.shown]
    /\ UNCHANGED <<gen, sl, load, contact, tabs>>
    /\ UNCHANGED pageVars

NextWorks ==
    \/ \E text \in SearchTexts : WorksInput(text)
    \/ WorksClear
    \/ WorksLoaded
    \/ WorksLoadFailed

SpecWorks == WorksInit /\ [][NextWorks]_vars

\* C28: once the data has loaded, the list shows the works of allWorks that
\* match the text of the search input, in the order of allWorks (all of them
\* when the input holds no term), whatever was typed before the data came
C28_ShownWorksMatchInput ==
    ("phase" \in DOMAIN works /\ works.phase = "loaded") =>
        works.shown = performSearch(works.allWorks,
                                    trim(toLowerCase(works.input)))

-----------------------------------------------------------------------------
(* SpecContact: the contact form (contact.js)                              *)
(* A message is the sequence of its words.                                 *)

\* the list of blocked words (stand-ins for the four words of the source)
blockedWords == {"curse1", "curse2", "junk1", "advert"}

\* the time between two ticks of the clock, the window of the duplicate
\* check and the least length of a message, in ms and characters
TickMs == 20000
DuplicateWindowMs == 60000
MinMessageLength == 10

\* the messages the user can submit: plain, with a blocked word, with the
\* replacement of a blocked word typed literally, with markup, too short,
\* and with a link
MessageTexts ==
    {<<"nice", "song", "indeed">>,
     <<"nice", "advert", "indeed">>,
     <<"love", "<3", "this", "song">>,
     <<"hi">>,
     <<"see", "http://x.y", "now">>}

\* sanitizeContent: the text as HTML (textContent in, innerHTML out)
sanitizeWord(w) == IF w = "<3" THEN "&lt;3" ELSE w
sanitizeContent(content) == [i \in 1..Len(content) |-> sanitizeWord(content[i])]

\* filterBadWords: every blocked word replaced by ***
filterBadWords(text) ==
    [i \in 1..Len(text) |-> IF text[i] \in blockedWords THEN "***" ELSE text[i]]

\* the length of a word and of a text (words and the blanks between them)
wordLength(w) ==
    CASE w \in {"hi"} -> 2
      [] w \in {"<3"} -> 2
      [] w \in {"see", "now", "***"} -> 3
      [] w \in {"nice", "song", "love", "this"} -> 4
      [] w = "&lt;3" -> 5
      [] w \in {"indeed", "advert"} -> 6
      [] OTHER -> 10
RECURSIVE textLength(_)
textLength(text) ==
    IF text = <<>> THEN 0
    ELSE wordLength(Head(text)) + textLength(Tail(text))
             + (IF Len(text) > 1 THEN 1 ELSE 0)

\* containsSpam, over the words above: only the link matches a pattern
containsSpam(text) == \E i \in 1..Len(text) : text[i] = "http://x.y"

NoSubmission == [message |-> <<>>, timestamp |-> -1]

\* validateForm on the message of the data (the name is valid), at time now
validateForm(message, last, now) ==
    /\ message # <<>> /\ textLength(message) >= MinMessageLength
    /\ textLength(message) <= 1000
    /\ ~containsSpam(message)
    /\ ~(/\ last # NoSubmission
         /\ now - last.timestamp < DuplicateWindowMs
         /\ last.message = message)

\* DOMContentLoaded on a browser that holds no submissions
ContactInit ==
    /\ contact = [now |-> 0, submits |-> 0, buttonDisabled |-> FALSE,
                  handlers |-> <<>>, sending |-> 0,
                  contactSubmissions |-> <<>>,
                  lastContactSubmission |-> NoSubmission]
    /\ gen = Idle /\ sl = Idle /\ load = Idle
    /\ works = Idle /\ tabs = Idle
    /\ PageIdle

\* the submit listener up to its await: the data is read from the form and
\* the lookup of the address begins (a disabled button submits nothing);
\* typed is history, the text as it stood in the form
ContactSubmit(text) ==
    /\ ~contact.buttonDisabled
    /\ contact.submits < MaxSubmits
    /\ contact' = [contact EXCEPT
                      !.submits = @ + 1,
                      !.handlers = Append(@, [message |-> sanitizeContent(text),
                                              typed |-> text,
                                              timestamp |-> contact.now])]
    /\ UNCHANGED <<gen, sl, load, works, tabs>>
    /\ UNCHANGED pageVars

\* getClientIP settles for one of the waiting listeners, which goes on:
\* validateForm, filterBadWords and submitMessage up to its await
ContactIpSettled(h) ==
    /\ h \in 1..Len(contact.handlers)
    /\ LET data == contact.handlers[h]
           others == [k \in 1..(Len(contact.handlers) - 1) |->
                         contact.handlers[IF k < h THEN k ELSE k + 1]]
           filtered == filterBadWords(data.message)
       IN  IF ~validateForm(data.message, contact.lastContactSubmission,
                            contact.now)
           THEN contact' = [contact EXCEPT !.handlers = others]
           ELSE contact' = [contact EXCEPT
                               !.handlers = others,
                               !.buttonDisabled = TRUE,
                               !.sending = @ + 1,
                               !.contactSubmissions =
                                   Append(@, [data EXCEPT !.message = filtered]),
                               !.lastContactSubmission =
                                   [message |-> filtered,
                                    timestamp |-> contact.now]]
    /\ UNCHANGED <<gen, sl, load, works, tabs>>
    /\ UNCHANGED pageVars

\* the timer of the simulated send fires: the form is reset and the button
\* enabled again
ContactSent ==
    /\ contact.sending > 0
    /\ contact' = [contact EXCEPT !.sending = @ - 1,
                                  !.buttonDisabled = FALSE]
    /\ UNCHANGED <<gen, sl, load, works, tabs>>
    /\ UNCHANGED pageVars

\* time passes; the 1000 ms of a simulated send end within one tick
ContactTick ==
    /\ contact.now < MaxTicks * TickMs
    /\ contact.sending = 0
    /\ contact' = [contact EXCEPT !.now = @ + TickMs]
    /\ UNCHANGED <<gen, sl, load, works, tabs>>
    /\ UNCHANGED pageVars

NextContact ==
    \/ \E text \in MessageTexts : ContactSubmit(text)
    \/ \E h \in 1..MaxSubmits : ContactIpSettled(h)
    \/ ContactSent
    \/ ContactTick

SpecContact == ContactInit /\ [][NextContact]_vars

\* C29: contactSubmissions never holds two entries for the same typed text
\* whose submit events are less than 60 seconds apart (the field typed of an
\* entry is history: the text as it stood in the form)
C29_NoRepeatedMessageWithinMinute ==
    "contactSubmissions" \in DOMAIN contact =>
        \A i, j \in 1..Len(contact.contactSubmissions) :
            LET first == contact.contactSubmissions[i]
                second == contact.contactSubmissions[j]
            IN  (i < j /\ first.typed = second.typed) =>
                    abs(second.timestamp - first.timestamp) >= DuplicateWindowMs

-----------------------------------------------------------------------------
(* SpecTabs: the tab system of the artwork detail page (createTabSystem)   *)

\* a field the work does not have
undefined == "undefined"
\* JavaScript truthiness of a text field
truthy(v) == v # undefined /\ v # ""

\* TAB_CONFIG, in the order of its keys: the tab and the field it renders
TAB_CONFIG ==
    <<[id |-> "lyrics", field |-> "lyrics"],
      [id |-> "score", field |-> "score_path"],
      [id |-> "stories", field |-> "stories"]>>

\* the works the detail page can be opened for
TabWorks ==
    [type : {"audio", "video", "image"},
     lyrics : {undefined, "", "la la"},
     score_path : {undefined, "score.png"},
     stories : {undefined, "", "once"}]

\* the tabs with content: TAB_CONFIG rendered for the work and filtered
validTabs(work) == SelectSeq(TAB_CONFIG, LAMBDA tab : truthy(work[tab.field]))

\* the id of the pane of a tab: `${tabId}-pane`
paneId(tabId) == <<tabId, "-pane">>

\* the buttons and the panes createTabSystem writes: the first is active
tabButtons(tabList) ==
    [i \in 1..Len(tabList) |-> [tab |-> tabList[i].id, active |-> i = 1]]
tabPanes(tabList) ==
    [i \in 1..Len(tabList) |-> [id |-> paneId(tabList[i].id), active |-> i = 1]]

\* the places of the tab navigation a click can hit: a button or the bar
TabTargets == {TAB_CONFIG[i].id : i \in 1..Len(TAB_CONFIG)} \cup {"tab-nav"}

isTabButton(st, target) == \E i \in 1..Len(st.buttons) : st.buttons[i].tab = target

tabClick_keepsPanes(st, target) ==
    IF isTabButton(st, target)
    THEN [st EXCEPT
            !.buttons = [i \in 1..Len(st.buttons) |->
                            [st.buttons[i] EXCEPT !.active = (st.buttons[i].tab = target)]],
            !.panes = [i \in 1..Len(st.panes) |->
                          [st.panes[i] EXCEPT
                              !.active = @ \/ st.panes[i].id = paneId(target)]]]
    ELSE st
\* the click listener of the tab navigation: for a click on a button, every
\* button and pane loses 'active', then the button and its pane get it
tabClick(st, target) ==
    IF isTabButton(st, target)
    THEN [st EXCEPT
            !.buttons = [i \in 1..Len(st.buttons) |->
                            [st.buttons[i] EXCEPT !.active = (st.buttons[i].tab = target)]],
            !.panes = [i \in 1..Len(st.panes) |->
                          [st.panes[i] EXCEPT
                              !.active = (st.panes[i].id = paneId(target))]]]
    ELSE st

\* the work has been loaded, renderWorkDetail is about to run
TabsInit ==
    /\ \E work \in TabWorks :
          tabs = [work |-> work, rendered |-> FALSE, created |-> FALSE,
                  buttons |-> <<>>, panes |-> <<>>, clicked |-> "none"]
    /\ gen = Idle /\ sl = Idle /\ load = Idle
    /\ works = Idle /\ contact = Idle
    /\ PageIdle

\* renderContent: for an audio work createTabSystem runs, which builds the
\* tab system unless no tab has content
TabsRender ==
    /\ ~tabs.rendered
    /\ LET tabList == validTabs(tabs.work)
       IN  IF tabs.work.type = "audio" /\ Len(tabList) # 0
           THEN tabs' = [tabs EXCEPT !.rendered = TRUE, !.created = TRUE,
                                     !.buttons = tabButtons(tabList),
                                     !.panes = tabPanes(tabList)]
           ELSE tabs' = [tabs EXCEPT !.rendered = TRUE]
    /\ UNCHANGED <<gen, sl, load, works, contact>>
    /\ UNCHANGED pageVars

\* a click inside the tab navigation (clicked is history: the place hit)
TabsClick(target) ==
    /\ tabs.created
    /\ target = "tab-nav" \/ isTabButton(tabs, target)
    /\ tabs' = [tabClick(tabs, target) EXCEPT !.clicked = target]
    /\ UNCHANGED <<gen, sl, load, works, contact>>
    /\ UNCHANGED pageVars

NextTabs ==
    \/ TabsRender
    \/ \E target \in TabTargets : TabsClick(target)

SpecTabs == TabsInit /\ [][NextTabs]_vars

activeButtons == {i \in 1..Len(tabs.buttons) : tabs.buttons[i].active}
activePanes == {i \in 1..Len(tabs.panes) : tabs.panes[i].active}

\* C30: once the tab system of an audio work exists, and after any clicks
\* in its navigation, exactly one button and exactly one pane are active and
\* the active pane is the pane of the active button; when the system has
\* just been created they are the first button and the first pane
C30_OneActiveTab ==
    /\ []("created" \in DOMAIN tabs /\ tabs.created =>
            /\ tabs.work.type = "audio"
            /\ Cardinality(activeButtons) = 1
            /\ Cardinality(activePanes) = 1
            /\ \A i \in activeButtons : \A j \in activePanes :
                  tabs.panes[j].id = paneId(tabs.buttons[i].tab))
    /\ [][("created" \in DOMAIN tabs /\ ~tabs.created /\ tabs'.created) =>
            /\ tabs'.buttons[1].active /\ tabs'.panes[1].active
            /\ tabs'.buttons[1].tab = validTabs(tabs.work)[1].id]_vars

\* three tabs, the last one clicked after another one had been active
C30_Witness ==
    /\ "created" \in DOMAIN tabs /\ tabs.created
    /\ Len(tabs.buttons) = 3
    /\ tabs.clicked = "stories"
    /\ tabs.buttons[3].active /\ tabs.panes[3].active
    /\ ~tabs.buttons[1].active /\ ~tabs.panes[1].active

=============================================================================
